---- MODULE Spec2Model ----
(***************************************************************************)
(* A model of bot.py, the archive.org reaction bot.                        *)
(*                                                                         *)
(* Every reaction event is run by discord.py as a task of its own on one   *)
(* cooperative event loop.  A task gives the loop back only where the      *)
(* code awaits the chat platform (user.send, channel.send); the archive    *)
(* service is called with the blocking requests.get, during which the task *)
(* keeps the loop.  `running` is the task that holds the loop.             *)
(*                                                                         *)
(* A message carries an identifier, the number of URLs URLExtract finds in *)
(* its content, and whether it has a guild (a message of a direct-message  *)
(* channel has message.guild = None).  discord.py gives every message a    *)
(* channel, so message.channel == None never holds.                        *)
(***************************************************************************)
EXTENDS Integers, Sequences, FiniteSets, TLC

\* Bounds of the model.
MaxEvents == 2
NumMsgs == 2
MaxUrls == 2

Events == 1..MaxEvents
Msgs == 1..NumMsgs

Archive == "archive"      \* the emoji of line 250
Repeat == "repeat"        \* the emoji of line 255
OtherEmoji == "other"
Emojis == {Archive, Repeat, OtherEmoji}

\* Reply payloads.  The empty tuple is the empty string (falsy in Python).
EmptyText == <<>>
DeclinedText == <<"The Internet Archive declined to crawl the link you reacted to.  Sorry.">>
WaybackUrl(m, k) == <<"closest", m, k>>   \* archived_snapshots/closest/url of URL k of message m
SavedUrl(m, k) == <<"saved", m, k>>       \* the Location of a save of URL k of message m
NoHeader == <<"absent">>                  \* the response has no Location header

\* The responses requests.get can return for GET /save/<url>.
Redirects == {302, 301}
Declines == {523, 520}
OtherStatuses == {500}
SaveResponses(m, k) ==
  {[status_code |-> s, Location |-> l] : s \in Redirects, l \in {NoHeader, EmptyText, SavedUrl(m, k)}}
    \cup {[status_code |-> s, Location |-> NoHeader] : s \in Declines \cup OtherStatuses}
\* `response` of handle_repeat_react before its first assignment.
Unbound == [status_code |-> 0, Location |-> NoHeader]

\* The bodies of GET /wayback/available, by what DictQuery.get makes of them.
LookupOutcomes == {"raised", "not_found", "found"}

\* What a task notes of the save_page call for its current URL: none made, an
\* exception, or the status code of the response; a task that is over keeps
\* only that a response came.
NotSaved == 0
SaveRaised == -1
SaveReturned == 1

NoReply == [to |-> "nobody", text |-> EmptyText, ok |-> FALSE]

\* Users who write chat messages, and client.user, the bot itself.
NumUsers == 2
Users == 1..NumUsers
ClientUser == 0

\* message.content.split(' ')[0]: the status command or anything else.
StatusCommand == "!archivestatus"
OtherText == "other"
FirstWords == {StatusCommand, OtherText}

VARIABLES
  messageTarget,     \* bot_state.config['messageTarget']
  content,           \* message id -> number of URLs in message.content
  guild,             \* message id -> the message has a guild
  handled_messages,  \* bot_state.handled_messages
  running,           \* the task that holds the event loop, 0 when none does
  task,              \* event -> the state of its on_reaction_add task
  channel_posts,     \* message id -> channel sends completed, by repeat_react
  administratorIds,  \* bot_state.config['administratorIds']
  command            \* the on_message task of the latest chat message

vars == <<messageTarget, content, guild, handled_messages, running, task, channel_posts,
          administratorIds, command>>

\* The latest chat message and its on_message task: where the task is (pc),
\* the message's author and first word (content), the user of the pending
\* send (to), and the direct messages the task's sends made (replies).
IdleCommand ==
  [pc |-> "idle", author |-> ClientUser, content |-> OtherText, to |-> ClientUser,
   replies |-> <<>>]

\* A task: where it is (pc), its arguments and locals (emoji, message, url the
\* index of the loop's current URL, response, and the text, repeat_react
\* and call site of the latest reply call), and a record of what it did: requests issued
\* (lookups, saves), what the current URL's requests gave (lookup_result,
\* save_result), the send made for the current URL and whether it was
\* delivered (sent), how it ended (ended), which events were over when it
\* started (after), and for the workflow under way the calls of
\* respond_to_user it made (routed) and the channel sends of it that
\* returned (posts).
IdleTask ==
  [pc |-> "idle", emoji |-> OtherEmoji, message |-> 0, url |-> 0,
   response |-> Unbound, text |-> EmptyText, repeat_react |-> FALSE, site |-> "none",
   lookups |-> 0, saves |-> 0, lookup_result |-> "none", save_result |-> NotSaved,
   sent |-> NoReply, ended |-> "no", after |-> {}, routed |-> 0, posts |-> 0]

\* The state after BotState() and before any event.  The reaction workflows
\* never read administratorIds; StatusInit draws it from every list.
Init ==
  /\ messageTarget \in {"user", "channel"}
  /\ content \in [Msgs -> 0..MaxUrls]
  /\ guild \in [Msgs -> BOOLEAN]
  /\ handled_messages = <<>>
  /\ running = 0
  /\ task = [e \in Events |-> IdleTask]
  /\ channel_posts = [m \in Msgs |-> [plain |-> 0, forced |-> 0]]
  /\ administratorIds = {}
  /\ command = IdleCommand

InSeq(x, s) == \E i \in 1..Len(s) : s[i] = x

\* Line 105 appending the identifier only when the list lacks it.
append_absent(handled, id) ==
  IF InSeq(id, handled) THEN handled ELSE Append(handled, id)

\* Line 105 left out: nothing is recorded.
append_never(handled, id) == handled

\* bot_state.handled_messages.append(message.id), line 105.
append(handled, id) == Append(handled, id)

\* The task is over: the handler returned (or an exception left it).
Done(t, how) ==
  [t EXCEPT !.pc = "done", !.ended = how, !.response = Unbound,
            !.text = EmptyText, !.repeat_react = FALSE, !.site = "none",
            !.routed = 0, !.posts = 0,
            !.save_result = IF @ \in {NotSaved, SaveRaised} THEN @ ELSE SaveReturned]

\* The head of `for url in urls`, entered for URL k: the archive-check loop
\* issues the lookup (line 127), the force-rearchive loop the save (line 151).
\* response is dead at the head of the archive-check loop, and live in
\* handle_repeat_react, whose line 155 reads it whatever line 151 did.
Iterate(t, k) ==
  IF k > content[t.message] THEN Done(t, "exhausted")
  ELSE IF t.emoji = Archive
    THEN [t EXCEPT !.pc = "requests_get", !.url = k, !.lookups = @ + 1,
                   !.response = Unbound, !.text = EmptyText, !.repeat_react = FALSE,
                   !.site = "none", !.lookup_result = "none", !.save_result = NotSaved,
                   !.sent = NoReply]
    ELSE [t EXCEPT !.pc = "save_page", !.url = k, !.saves = @ + 1,
                   !.text = EmptyText, !.repeat_react = FALSE,
                   !.site = "none", !.lookup_result = "none", !.save_result = NotSaved,
                   !.sent = NoReply]

\* send_dm(user, text): awaits user.send(text) when text is truthy, and only
\* logs otherwise.  The result is the task and whether it now awaits.
send_dm(t, txt, st) ==
  IF txt # EmptyText
    THEN [t EXCEPT !.pc = "send_dm", !.text = txt, !.site = st]
    ELSE t

\* send_to_channel(channel, text): the same for channel.send(text).
send_to_channel(t, txt, st) ==
  IF txt # EmptyText
    THEN [t EXCEPT !.pc = "send_to_channel", !.text = txt, !.site = st]
    ELSE t

Awaits(t) == t.pc \in {"send_dm", "send_to_channel"}

\* respond_to_user without the test of line 100: every call sends.
respond_to_user_nodedup(t, handled, txt, rr, st) ==
  IF messageTarget = "user"
    THEN [task |-> send_dm([t EXCEPT !.repeat_react = rr, !.text = txt, !.routed = @ + 1], txt, st), handled |-> handled]
    ELSE LET s == send_to_channel([t EXCEPT !.repeat_react = rr, !.text = txt, !.routed = @ + 1], txt, st)
         IN  [task |-> s,
              handled |-> IF Awaits(s) THEN handled ELSE Append(handled, t.message)]

\* respond_to_user with line 100 testing the handled list alone.
respond_to_user_norepeat(t, handled, txt, rr, st) ==
  IF messageTarget = "user"
    THEN [task |-> send_dm([t EXCEPT !.repeat_react = rr, !.text = txt, !.routed = @ + 1], txt, st), handled |-> handled]
    ELSE IF ~InSeq(t.message, handled)
      THEN LET s == send_to_channel([t EXCEPT !.repeat_react = rr, !.text = txt, !.routed = @ + 1], txt, st)
           IN  [task |-> s,
                handled |-> IF Awaits(s) THEN handled ELSE Append(handled, t.message)]
      ELSE [task |-> [t EXCEPT !.repeat_react = rr, !.text = txt, !.routed = @ + 1], handled |-> handled]

\* respond_to_user with line 94 never taking the direct-message branch.
respond_to_user_channel(t, handled, txt, rr, st) ==
  IF ~InSeq(t.message, handled) \/ rr
    THEN LET s == send_to_channel([t EXCEPT !.repeat_react = rr, !.text = txt, !.routed = @ + 1], txt, st)
         IN  [task |-> s,
              handled |-> IF Awaits(s) THEN handled ELSE Append(handled, t.message)]
    ELSE [task |-> [t EXCEPT !.repeat_react = rr, !.text = txt, !.routed = @ + 1], handled |-> handled]

\* respond_to_user with line 105 outside the else branch: a direct message is
\* recorded as well.
respond_to_user_records(t, handled, txt, rr, st) ==
  IF messageTarget = "user"
    THEN [task |-> send_dm([t EXCEPT !.repeat_react = rr, !.text = txt, !.routed = @ + 1], txt, st),
          handled |-> Append(handled, t.message)]
    ELSE IF ~InSeq(t.message, handled) \/ rr
      THEN LET s == send_to_channel([t EXCEPT !.repeat_react = rr, !.text = txt, !.routed = @ + 1], txt, st)
           IN  [task |-> s,
                handled |-> IF Awaits(s) THEN handled ELSE Append(handled, t.message)]
      ELSE [task |-> [t EXCEPT !.repeat_react = rr, !.text = txt, !.routed = @ + 1], handled |-> handled]

\* respond_to_user with line 105 ahead of the send: the identifier is
\* recorded before the task awaits.
respond_to_user_eager(t, handled, txt, rr, st) ==
  IF messageTarget = "user"
    THEN [task |-> send_dm([t EXCEPT !.repeat_react = rr, !.text = txt, !.routed = @ + 1], txt, st), handled |-> handled]
    ELSE IF ~InSeq(t.message, handled) \/ rr
      THEN [task |-> send_to_channel([t EXCEPT !.repeat_react = rr, !.text = txt, !.routed = @ + 1], txt, st),
            handled |-> Append(handled, t.message)]
      ELSE [task |-> [t EXCEPT !.repeat_react = rr, !.text = txt, !.routed = @ + 1], handled |-> handled]

\* respond_to_user up to its first await: the task it leaves and the handled
\* list.  When nothing is awaited the call has returned.
respond_to_user(t, handled, txt, rr, st) ==
  IF messageTarget = "user"
    THEN [task |-> send_dm([t EXCEPT !.repeat_react = rr, !.text = txt, !.routed = @ + 1], txt, st), handled |-> handled]
    ELSE IF ~InSeq(t.message, handled) \/ rr
      THEN LET s == send_to_channel([t EXCEPT !.repeat_react = rr, !.text = txt, !.routed = @ + 1], txt, st)
           IN  [task |-> s,
                handled |-> IF Awaits(s) THEN handled ELSE append(handled, t.message)]
      ELSE [task |-> [t EXCEPT !.repeat_react = rr, !.text = txt, !.routed = @ + 1], handled |-> handled]

\* handle_page_save_request with line 166 calling respond_to_user.
handle_page_save_request_routed(t, handled, response, rr) ==
  IF response.status_code \notin Redirects
    THEN IF response.status_code \in Declines
           THEN respond_to_user(t, handled, DeclinedText, rr, "decline")
           ELSE [task |-> t, handled |-> handled]
    ELSE IF response.Location = NoHeader
           THEN [task |-> t, handled |-> handled]
           ELSE respond_to_user(t, handled, response.Location, rr, "redirect")

\* handle_page_save_request without the test of line 164.
handle_page_save_request_nostatus(t, handled, response, rr) ==
  IF response.status_code \notin Redirects
    THEN [task |-> send_dm(t, DeclinedText, "decline"), handled |-> handled]
    ELSE IF response.Location = NoHeader
           THEN [task |-> t, handled |-> handled]
           ELSE respond_to_user(t, handled, response.Location, rr, "redirect")

\* handle_page_save_request with line 174 passing repeat_react=True whatever
\* the caller gave.
handle_page_save_request_forced(t, handled, response, rr) ==
  IF response.status_code \notin Redirects
    THEN IF response.status_code \in Declines
           THEN [task |-> send_dm(t, DeclinedText, "decline"), handled |-> handled]
           ELSE [task |-> t, handled |-> handled]
    ELSE IF response.Location = NoHeader
           THEN [task |-> t, handled |-> handled]
           ELSE respond_to_user(t, handled, response.Location, TRUE, "redirect")

\* handle_page_save_request up to its first await.
handle_page_save_request(t, handled, response, rr) ==
  IF response.status_code \notin Redirects
    THEN IF response.status_code \in Declines
           THEN [task |-> send_dm(t, DeclinedText, "decline"), handled |-> handled]
           ELSE [task |-> t, handled |-> handled]
    ELSE IF response.Location = NoHeader
           THEN [task |-> t, handled |-> handled]     \* KeyError, the bare except
           ELSE respond_to_user(t, handled, response.Location, rr, "redirect")

\* A call that may await: when it awaits the task keeps its place, otherwise
\* the call has returned and the body of the loop is over for this URL.
Proceed(r) ==
  IF Awaits(r.task) THEN r
  ELSE [task |-> [r.task EXCEPT !.pc = "for"], handled |-> r.handled]

HoldsLoop(t) == t.pc \in {"requests_get", "save_page", "for"}

\* The workflow's first lines with a loop that runs its body once whatever
\* find_urls returned.
Enter_nourls(t) ==
  IF ~guild[t.message] THEN Done(t, "escaped")
  ELSE IF t.emoji = Archive
    THEN [t EXCEPT !.pc = "requests_get", !.url = 1, !.lookups = @ + 1]
    ELSE [t EXCEPT !.pc = "save_page", !.url = 1, !.saves = @ + 1]

\* The workflow's first lines: the log line evaluates message.guild.id, which
\* raises for a message without guild, and so does the log line of the except
\* clause of on_reaction_add; `if urls:` then guards the loop.
Enter(t) ==
  IF ~guild[t.message] THEN Done(t, "escaped")
  ELSE IF content[t.message] = 0 THEN Done(t, "no_urls")
  ELSE Iterate(t, 1)

Step(e, r) ==
  /\ task' = [task EXCEPT ![e] = r.task]
  /\ handled_messages' = r.handled
  /\ running' = IF HoldsLoop(r.task) THEN e ELSE 0

\* on_reaction_add(reaction, user), to the first request of the workflow.
on_reaction_add(e) ==
  /\ running = 0
  /\ task[e].pc = "idle"
  /\ e > 1 => task[e - 1].pc # "idle"
  /\ \E emo \in Emojis, m \in Msgs :
       LET t == [task[e] EXCEPT !.emoji = emo, !.message = m,
                   !.after = {d \in Events : task[d].pc = "done"}]
           r == IF emo = OtherEmoji THEN Done(t, "ignored") ELSE Enter(t)
       IN  Step(e, [task |-> r, handled |-> handled_messages])
  /\ UNCHANGED <<messageTarget, administratorIds, command, content, guild, channel_posts>>

\* `for url in urls` goes on to the next URL, or ends the workflow.
for_url(e) ==
  /\ running = e
  /\ task[e].pc = "for"
  /\ Step(e, [task |-> Iterate(task[e], task[e].url + 1), handled |-> handled_messages])
  /\ UNCHANGED <<messageTarget, administratorIds, command, content, guild, channel_posts>>

\* The lookup of line 127 returns or raises; lines 128-135.
handle_archive_react(e) ==
  /\ running = e
  /\ task[e].pc = "requests_get"
  /\ \E o \in LookupOutcomes :
       LET t == [task[e] EXCEPT !.lookup_result = o]
           r == IF o = "raised"
                  THEN [task |-> Done(t, "caught"), handled |-> handled_messages]
                ELSE IF o = "found"
                  THEN Proceed(respond_to_user(t, handled_messages,
                                  WaybackUrl(t.message, t.url), FALSE, "found"))
                ELSE [task |-> [t EXCEPT !.pc = "save_page", !.saves = @ + 1],
                      handled |-> handled_messages]
       IN  Step(e, r)
  /\ UNCHANGED <<messageTarget, administratorIds, command, content, guild, channel_posts>>

\* save_page of line 135 returns or raises; lines 136-140.
handle_archive_react_save(e) ==
  /\ running = e
  /\ task[e].pc = "save_page"
  /\ task[e].emoji = Archive
  /\ \/ Step(e, [task |-> Done([task[e] EXCEPT !.save_result = SaveRaised], "returned"),
                 handled |-> handled_messages])
     \/ \E resp \in SaveResponses(task[e].message, task[e].url) :
          LET t == [task[e] EXCEPT !.save_result = resp.status_code, !.response = resp]
          IN  Step(e, Proceed(handle_page_save_request(t, handled_messages, resp, FALSE)))
  /\ UNCHANGED <<messageTarget, administratorIds, command, content, guild, channel_posts>>

\* save_page of line 151 returns or raises; lines 152-157.  After an
\* exception line 155 reads `response` as the earlier iterations left it:
\* unbound (an UnboundLocalError, caught at line 156) or the response
\* of an earlier URL.
handle_repeat_react(e) ==
  /\ running = e
  /\ task[e].pc = "save_page"
  /\ task[e].emoji = Repeat
  /\ \/ LET t == [task[e] EXCEPT !.save_result = SaveRaised]
        IN  IF t.response = Unbound
              THEN Step(e, Proceed([task |-> t, handled |-> handled_messages]))
              ELSE Step(e, Proceed(handle_page_save_request(t, handled_messages,
                                                             t.response, TRUE)))
     \/ \E resp \in SaveResponses(task[e].message, task[e].url) :
          LET t == [task[e] EXCEPT !.save_result = resp.status_code, !.response = resp]
          IN  Step(e, Proceed(handle_page_save_request(t, handled_messages, resp, TRUE)))
  /\ UNCHANGED <<messageTarget, administratorIds, command, content, guild, channel_posts>>

\* Where an exception raised by a pending send is caught: the bare except of
\* line 175, the except of line 156, or the except of on_reaction_add.
CaughtInLoop(t) ==
  \/ t.site = "redirect"
  \/ t.site = "decline" /\ t.emoji = Repeat

\* await user.send(text) returns or raises.
send_dm_returns(e) ==
  /\ running = 0
  /\ task[e].pc = "send_dm"
  /\ LET t == task[e] IN
       \/ LET s == [t EXCEPT !.sent = [to |-> "user", text |-> t.text, ok |-> TRUE],
                             !.pc = "for"]
          IN  Step(e, [task |-> s, handled |-> handled_messages])
       \/ LET s == [t EXCEPT !.sent = [to |-> "user", text |-> t.text, ok |-> FALSE]]
          IN  Step(e, [task |-> IF CaughtInLoop(s) THEN [s EXCEPT !.pc = "for"]
                               ELSE Done(s, "caught"),
                      handled |-> handled_messages])
  /\ UNCHANGED <<messageTarget, administratorIds, command, content, guild, channel_posts>>

\* await channel.send(text) returns (line 105 then appends) or raises.
send_to_channel_returns(e) ==
  /\ running = 0
  /\ task[e].pc = "send_to_channel"
  /\ LET t == task[e] IN
       \/ LET s == [t EXCEPT !.sent = [to |-> "channel", text |-> t.text, ok |-> TRUE],
                             !.posts = @ + 1, !.pc = "for"]
          IN  /\ Step(e, [task |-> s, handled |-> append(handled_messages, t.message)])
              /\ channel_posts' =
                   [channel_posts EXCEPT ![t.message] =
                      IF t.repeat_react THEN [@ EXCEPT !.forced = @ + 1]
                      ELSE [@ EXCEPT !.plain = @ + 1]]
       \/ LET s == [t EXCEPT !.sent = [to |-> "channel", text |-> t.text, ok |-> FALSE]]
          IN  /\ Step(e, [task |-> IF CaughtInLoop(s) THEN [s EXCEPT !.pc = "for"]
                                   ELSE Done(s, "caught"),
                          handled |-> handled_messages])
              /\ UNCHANGED channel_posts
  /\ UNCHANGED <<messageTarget, administratorIds, command, content, guild>>

Next ==
  \E e \in Events :
    \/ on_reaction_add(e)
    \/ for_url(e)
    \/ handle_archive_react(e)
    \/ handle_archive_react_save(e)
    \/ handle_repeat_react(e)
    \/ send_dm_returns(e)
    \/ send_to_channel_returns(e)

Spec == Init /\ [][Next]_vars

\* status_command without the test of line 184: every invoker is answered.
status_command_open(msg) ==
  [msg EXCEPT !.pc = "send_dm", !.to = msg.author]

\* status_command(bot_state, client, message) up to its await: the embed is
\* built and sent to message.author when the author is an administrator.
status_command(msg) ==
  IF msg.author \notin administratorIds
    THEN [msg EXCEPT !.pc = "done"]
    ELSE [msg EXCEPT !.pc = "send_dm", !.to = msg.author]

\* on_message(message): the bot's own messages are skipped, the first word
\* selects the command.  The bot writes snapshot links and the decline text,
\* never the command word.
on_message(u, w) ==
  /\ running = 0
  /\ command.pc # "send_dm"
  /\ u = ClientUser => w = OtherText
  /\ LET msg == [IdleCommand EXCEPT !.author = u, !.content = w]
     IN  command' = IF u = ClientUser THEN [msg EXCEPT !.pc = "done"]
                    ELSE IF w = StatusCommand THEN status_command(msg)
                    ELSE [msg EXCEPT !.pc = "done"]
  /\ UNCHANGED <<messageTarget, administratorIds, content, guild, handled_messages,
                 running, task, channel_posts>>

\* await user.send(embed=embed) of line 68 returns or raises; the exception
\* leaves status_command and on_message.
status_command_returns ==
  /\ running = 0
  /\ command.pc = "send_dm"
  /\ \E ok \in BOOLEAN :
       command' = [command EXCEPT !.pc = "done",
                                  !.replies = Append(@, [to |-> command.to, ok |-> ok])]
  /\ UNCHANGED <<messageTarget, administratorIds, content, guild, handled_messages,
                 running, task, channel_posts>>

\* The configuration with any administrator list, and messages of one URL
\* in a guild.
StatusInit ==
  /\ messageTarget \in {"user", "channel"}
  /\ content = [m \in Msgs |-> 1]
  /\ guild = [m \in Msgs |-> TRUE]
  /\ handled_messages = <<>>
  /\ running = 0
  /\ task = [e \in Events |-> IdleTask]
  /\ channel_posts = [m \in Msgs |-> [plain |-> 0, forced |-> 0]]
  /\ administratorIds \in SUBSET Users
  /\ command = IdleCommand

\* Chat messages arrive while reaction events are processed.
StatusNext ==
  \/ \E u \in Users \cup {ClientUser}, w \in FirstWords : on_message(u, w)
  \/ status_command_returns
  \/ Next

StatusSpec == StatusInit /\ [][StatusNext]_vars

TypeOK ==
  /\ messageTarget \in {"user", "channel"}
  /\ running \in 0..MaxEvents
  /\ \A e \in Events : task[e].url \in 0..MaxUrls
  /\ \A i \in 1..Len(handled_messages) : handled_messages[i] \in Msgs

Over(e) == task[e].pc = "done"
Times(m) == Cardinality({i \in 1..Len(handled_messages) : handled_messages[i] = m})
Attempt(e) == [to |-> task[e].sent.to, text |-> task[e].sent.text]

(***************************************************************************)
(* C1.  As stated: in channel-target mode no message ever has more than    *)
(* one in-channel reply sent by archive-check (non-forced) events, however *)
(* the events interleave.                                                  *)
(***************************************************************************)
C1_AtMostOnePlainReply ==
  messageTarget = "channel" => \A m \in Msgs : channel_posts[m].plain <= 1

\* The archive-check events on message m were processed one after another:
\* each started when the earlier ones were over.
InTurn(m) ==
  \A d, e \in Events :
    (d < e /\ task[d].emoji = Archive /\ task[e].emoji = Archive
       /\ task[d].message = m /\ task[e].message = m) => d \in task[e].after

\* C1, amended: in channel-target mode a message has at most one in-channel
\* reply sent by archive-check events when the archive-check events on it are
\* processed one after another.
C1_AtMostOnePlainReplyInTurn ==
  messageTarget = "channel" =>
    \A m \in Msgs : InTurn(m) => channel_posts[m].plain <= 1

\* Two archive-check events in turn on one message, both lookups found a
\* snapshot, the first was answered in the channel and the second suppressed.
C1_Witness ==
  /\ messageTarget = "channel"
  /\ \E d, e \in Events :
       /\ d < e /\ Over(d) /\ Over(e) /\ d \in task[e].after
       /\ task[d].emoji = Archive /\ task[e].emoji = Archive
       /\ task[d].message = task[e].message
       /\ task[d].sent.to = "channel" /\ task[d].sent.ok
       /\ task[e].lookup_result = "found" /\ task[e].sent = NoReply
       /\ channel_posts[task[e].message].plain = 1

ForcedRedirect(e) ==
  /\ messageTarget = "channel"
  /\ task[e].emoji = Repeat
  /\ task[e].save_result \in Redirects
  /\ task[e].response.Location \notin {NoHeader, EmptyText}

C3_SiblingsProcessed ==
  \A e \in Events :
    (Over(e) /\ task[e].url >= 1) => task[e].url = content[task[e].message]

(***************************************************************************)
(* C4.  No reply is delivered for a URL whose save-trigger request raised. *)
(***************************************************************************)
C4_NoReplyAfterSaveFailed ==
  \A e \in Events : task[e].save_result = SaveRaised => ~task[e].sent.ok

(***************************************************************************)
(* C5.  An archive-check event on a message (of a guild) with N URLs       *)
(* issues N lookups, and a save-trigger for a URL only after that URL's    *)
(* lookup returned not-found.                                              *)
(***************************************************************************)
C5_LookupPerUrl ==
  \A e \in Events :
    (task[e].emoji = Archive /\ guild[task[e].message]) =>
      /\ Over(e) => task[e].lookups = content[task[e].message]
      /\ (task[e].pc = "save_page" \/ task[e].save_result # NotSaved)
            => task[e].lookup_result = "not_found"

(***************************************************************************)
(* C6.  A force-rearchive event on a message with N URLs issues N          *)
(* save-triggers and no lookup.                                            *)
(***************************************************************************)
C6_SavePerUrl ==
  \A e \in Events :
    (Over(e) /\ task[e].emoji = Repeat) =>
      (task[e].saves = content[task[e].message] /\ task[e].lookups = 0)

(***************************************************************************)
(* C7.  A workflow on a message without URLs ends at once: no lookup, no   *)
(* save-trigger, no reply, and the handled set as it was.                  *)
(***************************************************************************)
C7_NoUrlsNoEffect ==
  [][\A e \in Events :
       (task'[e] # task[e] /\ task'[e].emoji \in {Archive, Repeat}
          /\ content[task'[e].message] = 0)
         => /\ task'[e].pc = "done"
            /\ task'[e].lookups = 0 /\ task'[e].saves = 0
            /\ task'[e].sent = NoReply
            /\ handled_messages' = handled_messages
            /\ channel_posts' = channel_posts]_vars

\* Both workflows have run on a message of a guild without URLs.
C7_Witness ==
  \E d, e \in Events :
    /\ task[d].ended = "no_urls" /\ task[d].emoji = Archive
    /\ task[e].ended = "no_urls" /\ task[e].emoji = Repeat

(***************************************************************************)
(* C8.  Two archive-check events a, then b, on the same message and URL,   *)
(* the lookup finding a snapshot both times.                               *)
(***************************************************************************)
FoundTwice(a, b) ==
  /\ a < b /\ Over(a) /\ Over(b) /\ a \in task[b].after
  /\ task[a].emoji = Archive /\ task[b].emoji = Archive
  /\ task[a].message = task[b].message
  /\ task[a].url = task[b].url
  /\ task[a].lookup_result = "found" /\ task[b].lookup_result = "found"

\* C8 as stated: both runs send the same reply and make no save-trigger call,
\* in either target mode.
C8_SameReplyTwice ==
  \A a, b \in Events :
    FoundTwice(a, b) =>
      /\ Attempt(a) = Attempt(b)
      /\ task[a].save_result = NotSaved /\ task[b].save_result = NotSaved

\* C8, amended: neither run makes a save-trigger call; in user-target mode
\* both send the snapshot URL as a direct message; in channel-target mode a
\* run sends the snapshot URL to the channel or nothing, and nothing once the
\* first run's reply was delivered.
C8_FoundReply ==
  \A a, b \in Events :
    FoundTwice(a, b) =>
      LET snapshot == WaybackUrl(task[a].message, task[a].url) IN
      /\ task[a].save_result = NotSaved /\ task[b].save_result = NotSaved
      /\ messageTarget = "user" =>
            /\ Attempt(a) = [to |-> "user", text |-> snapshot]
            /\ Attempt(b) = [to |-> "user", text |-> snapshot]
      /\ messageTarget = "channel" =>
            /\ {Attempt(a), Attempt(b)} \subseteq
                  {[to |-> "nobody", text |-> EmptyText],
                   [to |-> "channel", text |-> snapshot]}
            /\ task[a].sent.ok => task[b].sent = NoReply

C8_Witness ==
  \E a, b \in Events :
    /\ FoundTwice(a, b)
    /\ messageTarget = "channel"
    /\ task[a].sent.ok /\ task[b].sent = NoReply

(***************************************************************************)
(* C9.  As stated: in channel-target mode the decline message of a 520 or  *)
(* 523 goes through the Response Router, so to the channel.                *)
(***************************************************************************)
C9_DeclineViaRouter ==
  \A e \in Events :
    (messageTarget = "channel" /\ task[e].save_result \in Declines /\ Awaits(task[e]))
      => task[e].pc = "send_to_channel"

\* C9, amended: on 520 or 523 the fixed decline message is sent as a direct
\* message to the reacting user in both target modes, whatever the handled
\* set contains, and the message is not recorded as handled.
C9_DeclineIsDirectMessage ==
  /\ [](\A e \in Events :
         task[e].save_result \in Declines =>
           \/ task[e].pc = "send_dm" /\ task[e].text = DeclinedText
           \/ task[e].pc = "for"
                /\ Attempt(e) = [to |-> "user", text |-> DeclinedText])
  /\ [][\A e \in Events :
          (task'[e] # task[e] /\ task'[e].save_result \in Declines)
            => (handled_messages' = handled_messages /\ channel_posts' = channel_posts)]_vars

\* In channel-target mode the decline message was delivered as a direct
\* message, for a message that is not handled.
C9_Witness ==
  \E e \in Events :
    /\ messageTarget = "channel"
    /\ task[e].save_result \in Declines
    /\ task[e].pc = "for" /\ task[e].sent.ok
    /\ ~InSeq(task[e].message, handled_messages)

(***************************************************************************)
(* C10.  A save-trigger response with a status other than 301, 302, 520    *)
(* and 523 is followed by no send for that URL, in both workflows.         *)
(***************************************************************************)
C10_OtherStatusNoReply ==
  \A e \in Events :
    task[e].save_result \in OtherStatuses =>
      (task[e].pc = "for" /\ task[e].sent = NoReply)

C10_Witness ==
  \E e \in Events :
    /\ task[e].save_result \in OtherStatuses
    /\ task[e].emoji = Archive
    /\ task[e].response.status_code \notin Redirects \cup Declines

(***************************************************************************)
(* C11.  The Response Router in user-target mode.                          *)
(***************************************************************************)
\* The processing of the current URL of task e called respond_to_user: the
\* lookup found a snapshot (line 131), or the response line 174 reads is a
\* redirect with a Location header.
RouterCalled(e) ==
  \/ task[e].lookup_result = "found"
  \/ /\ task[e].save_result # NotSaved
     /\ task[e].response.status_code \in Redirects
     /\ task[e].response.Location # NoHeader

RouterText(e) ==
  IF task[e].lookup_result = "found" THEN WaybackUrl(task[e].message, task[e].url)
  ELSE task[e].response.Location

\* The call led to one direct message with the payload: awaited, or made.
OneDirectMessage(e) ==
  \/ task[e].pc = "send_dm" /\ task[e].text = RouterText(e)
  \/ task[e].pc \in {"for", "done"}
       /\ Attempt(e) = [to |-> "user", text |-> RouterText(e)]

\* C11 as stated: in user-target mode every call of the Response Router sends
\* one direct message, and the handled set stays empty.
C11_EveryCallOneDm ==
  messageTarget = "user" =>
    /\ handled_messages = <<>>
    /\ \A e \in Events : RouterCalled(e) => OneDirectMessage(e)

\* C11, amended: in user-target mode every call of the Response Router with a
\* non-empty payload sends one direct message, whatever the force-repeat flag,
\* a call with an empty payload sends nothing, and the handled set stays
\* empty.
C11_NonEmptyCallOneDm ==
  messageTarget = "user" =>
    /\ handled_messages = <<>>
    /\ \A e \in Events :
         RouterCalled(e) =>
           IF RouterText(e) # EmptyText THEN OneDirectMessage(e)
           ELSE task[e].pc = "for" /\ task[e].sent = NoReply

\* Two reactions on one message, archive-check and force-rearchive, each
\* answered by a delivered direct message.
C11_Witness ==
  /\ messageTarget = "user"
  /\ \E d, e \in Events :
       /\ d # e /\ task[d].message = task[e].message
       /\ task[d].emoji = Archive /\ task[d].lookup_result = "found"
       /\ task[d].sent.ok /\ task[d].sent.to = "user"
       /\ task[e].emoji = Repeat /\ RouterCalled(e) /\ task[e].pc = "for"
       /\ task[e].sent.ok /\ task[e].sent.to = "user"

StatusInvoked == command.pc # "idle" /\ command.content = StatusCommand

C13_StatusReplyIffAdministrator ==
  /\ [](StatusInvoked =>
         IF command.author \in administratorIds
           THEN \/ command.pc = "send_dm" /\ command.to = command.author
                     /\ command.replies = <<>>
                \/ command.pc = "done" /\ Len(command.replies) = 1
                     /\ command.replies[1].to = command.author
           ELSE command.pc = "done" /\ command.replies = <<>>)
  /\ [][command' # command =>
          /\ handled_messages' = handled_messages
          /\ channel_posts' = channel_posts]_vars

\* An administrator got the status as a direct message while the handled
\* list was not empty, and another user is no administrator.
C13_Witness ==
  /\ StatusInvoked
  /\ command.author \in administratorIds
  /\ administratorIds # Users
  /\ command.replies = <<[to |-> command.author, ok |-> TRUE]>>
  /\ handled_messages # <<>>

(***************************************************************************)
(* C14.  As stated: a lookup or a save-trigger is a suspension point, so   *)
(* while one event's task waits for the response the event loop runs the   *)
(* steps of other events: a send that another task awaits can return, and  *)
(* the next reaction event can be taken up.                                *)
(***************************************************************************)
WaitsForRequest(e) == task[e].pc \in {"requests_get", "save_page"}

C14_RequestsAreSuspensionPoints ==
  \A e \in Events : WaitsForRequest(e) =>
    \A d \in Events \ {e} :
      /\ task[d].pc = "send_dm" => ENABLED send_dm_returns(d)
      /\ task[d].pc = "send_to_channel" => ENABLED send_to_channel_returns(d)
      /\ (task[d].pc = "idle" /\ (d = 1 \/ task[d - 1].pc # "idle"))
           => ENABLED on_reaction_add(d)

(***************************************************************************)
(* C15.  As stated: no exception raised while a reaction event is          *)
(* processed leaves on_reaction_add, whatever the message, one without     *)
(* guild included: every task that is over returned normally or had its    *)
(* exception caught and logged.                                            *)
(***************************************************************************)
C15_NoExceptionEscapes ==
  \A e \in Events : Over(e) =>
    task[e].ended \in {"ignored", "no_urls", "exhausted", "returned", "caught"}

(***************************************************************************)
(* C16.  The dedup test and the append are separated by the await of the   *)
(* channel send: a non-forced channel send starts only while the message   *)
(* is absent from the handled list, and starting it leaves the list as it  *)
(* is, so two archive-check events on one unhandled message can both pass  *)
(* the test before either appends, and both post.                          *)
(***************************************************************************)
StartsPlainSend(e) ==
  /\ task[e].pc # "send_to_channel"
  /\ task'[e].pc = "send_to_channel"
  /\ ~task'[e].repeat_react

C16_TestThenAwaitThenAppend ==
  [][\A e \in Events : StartsPlainSend(e) =>
        /\ ~InSeq(task'[e].message, handled_messages)
        /\ handled_messages' = handled_messages]_vars

\* Two archive-check events on one message awaited their channel sends at
\* the same time, and both sends were delivered.
C16_Witness ==
  \E d, e \in Events :
    /\ d # e
    /\ messageTarget = "channel"
    /\ task[d].emoji = Archive /\ task[e].emoji = Archive
    /\ task[d].message = task[e].message
    /\ d \notin task[e].after /\ e \notin task[d].after
    /\ task[d].sent.to = "channel" /\ task[d].sent.ok
    /\ task[e].sent.to = "channel" /\ task[e].sent.ok
    /\ channel_posts[task[e].message].plain = 2

(***************************************************************************)
(* C17.  When the save-trigger of the current URL returned 301 or 302 with *)
(* a Location header, the Response Router was called with that Location    *)
(* value as text and with repeat_react false in the archive-check workflow *)
(* and true in the force-rearchive workflow; without the header nothing is *)
(* sent and the handled list stays as it was.                              *)
(***************************************************************************)
Redirected(e) == task[e].pc # "done" /\ task[e].save_result \in Redirects

C17_LocationIsThePayload ==
  /\ [](\A e \in Events : Redirected(e) =>
           IF task[e].response.Location # NoHeader
             THEN /\ task[e].text = task[e].response.Location
                  /\ task[e].repeat_react = (task[e].emoji = Repeat)
                  /\ task[e].sent \in {NoReply} \cup
                       {[to |-> w, text |-> task[e].response.Location, ok |-> b] :
                          w \in {"user", "channel"}, b \in BOOLEAN}
             ELSE /\ task[e].pc = "for"
                  /\ task[e].text = EmptyText
                  /\ task[e].sent = NoReply)
  /\ [][\A e \in Events :
          (~Redirected(e) /\ Redirected(e)' /\ task'[e].response.Location = NoHeader)
            => handled_messages' = handled_messages]_vars

\* A force-rearchive event on a message that an archive-check event had
\* answered was redirected, and its Location went to the channel.
C17_Witness ==
  \E e \in Events :
    /\ messageTarget = "channel"
    /\ task[e].emoji = Repeat
    /\ Redirected(e)
    /\ task[e].repeat_react
    /\ task[e].response.Location = SavedUrl(task[e].message, task[e].url)
    /\ task[e].sent = [to |-> "channel", text |-> task[e].response.Location, ok |-> TRUE]
    /\ channel_posts[task[e].message] = [plain |-> 1, forced |-> 1]

(***************************************************************************)
(* C18.  As stated: in channel-target mode, within one archive-check event *)
(* on a message with several URLs, the in-channel reply goes to the first  *)
(* URL whose processing reaches the Response Router, and every later call  *)
(* of the Router is suppressed.                                            *)
(***************************************************************************)
ArchiveUnderWay(e) ==
  messageTarget = "channel" /\ task[e].emoji = Archive /\ task[e].pc # "done"

C18_OnlyFirstRoutedUrlReplies ==
  \A e \in Events :
    (ArchiveUnderWay(e) /\ task[e].routed >= 2) =>
      /\ task[e].pc # "send_to_channel"
      /\ task[e].sent.to # "channel"

\* C18, amended: within one archive-check event at most one in-channel reply
\* is delivered, and once one was delivered every later call of the Router
\* is suppressed; a send that raised does not count, the next URL that
\* reaches the Router is sent in its place.
C18_OneDeliveredReply ==
  \A e \in Events : ArchiveUnderWay(e) =>
    /\ task[e].posts <= 1
    /\ task[e].pc = "send_to_channel" => task[e].posts = 0
    /\ (task[e].posts = 1 /\ RouterCalled(e) /\ ~task[e].sent.ok)
         => (task[e].pc = "for" /\ task[e].sent = NoReply)

\* The first URL's reply was delivered and the Router call of the second URL
\* sent nothing.
C18_Witness ==
  \E e \in Events :
    /\ ArchiveUnderWay(e)
    /\ task[e].url = 2 /\ task[e].routed = 2 /\ task[e].posts = 1
    /\ RouterCalled(e)
    /\ task[e].pc = "for" /\ task[e].sent = NoReply

(***************************************************************************)
(* C19.  As stated: every message identifier in the handled list has had   *)
(* at least one channel send return successfully.                          *)
(***************************************************************************)
C19_HandledWasAnswered ==
  \A m \in Msgs :
    InSeq(m, handled_messages) => channel_posts[m].plain + channel_posts[m].forced >= 1
====
